---- MODULE Spec2Model ----
(***************************************************************************)
(* Model of the HTTP server in src/main.rs: the accept loop spawns one     *)
(* stream_handler per connection; a handler reads one request              *)
(* (reader_request, parse_http_request), routes it (route_request),        *)
(* serialises the response (Into<String> for HttpResponseBuilder) and      *)
(* writes it to the socket.                                                *)
(*                                                                         *)
(* A Rust String is modelled as the sequence of its chars (code points);   *)
(* as_bytes / len go through the UTF-8 encoding, from_utf8 / read_line /   *)
(* read_to_string through the UTF-8 decoding.  Byte streams and file       *)
(* contents are sequences of bytes 0..255.  Option<T> is a sequence of     *)
(* length at most one.                                                     *)
(***************************************************************************)
EXTENDS Integers, Sequences, FiniteSets, TLC

\* ------------------------------------------------------------------------
\* Bounds of the explored inputs
\* ------------------------------------------------------------------------
MaxHeaders == 2     \* header lines sent after the request line
MaxBody == 2        \* bytes sent after the header block

\* ------------------------------------------------------------------------
\* String literals of the source, as sequences of chars
\* ------------------------------------------------------------------------
S_GET == <<71, 69, 84>>                                           \* "GET"
S_POST == <<80, 79, 83, 84>>                                      \* "POST"
S_echo == <<101, 99, 104, 111>>                                   \* "echo"
S_user_agent == <<117, 115, 101, 114, 45, 97, 103, 101, 110, 116>> \* "user-agent"
S_files == <<102, 105, 108, 101, 115>>                            \* "files"
S_User_Agent == <<85, 115, 101, 114, 45, 65, 103, 101, 110, 116>> \* "User-Agent"
S_Content_Length ==
  <<67, 111, 110, 116, 101, 110, 116, 45, 76, 101, 110, 103, 116, 104>> \* "Content-Length"
S_colon_space == <<58, 32>>                                       \* ": "
S_crlf == <<13, 10>>                                              \* "\r\n"
S_Ok == <<79, 107>>                                               \* "Ok"
S_Created == <<67, 114, 101, 97, 116, 101, 100>>                  \* "Created"
S_NotFound == <<78, 111, 116, 70, 111, 117, 110, 100>>            \* "NotFound"
S_InternalError ==
  <<73, 110, 116, 101, 114, 110, 97, 108, 69, 114, 114, 111, 114>> \* "InternalError"
S_ct_text ==                          \* "Content-Type: text/plain\r\n"
  <<67, 111, 110, 116, 101, 110, 116, 45, 84, 121, 112, 101, 58, 32,
    116, 101, 120, 116, 47, 112, 108, 97, 105, 110, 13, 10>>
S_ct_octet ==                         \* "Content-Type: application/octet-stream\r\n"
  <<67, 111, 110, 116, 101, 110, 116, 45, 84, 121, 112, 101, 58, 32,
    97, 112, 112, 108, 105, 99, 97, 116, 105, 111, 110, 47,
    111, 99, 116, 101, 116, 45, 115, 116, 114, 101, 97, 109, 13, 10>>
S_cl_prefix ==                        \* "Content-Length: "
  <<67, 111, 110, 116, 101, 110, 116, 45, 76, 101, 110, 103, 116, 104, 58, 32>>

\* ------------------------------------------------------------------------
\* Sequence helpers
\* ------------------------------------------------------------------------
Drop(s, n) == SubSeq(s, n + 1, Len(s))
Take(s, n) == SubSeq(s, 1, n)
IsPrefix(p, s) == Len(p) <= Len(s) /\ Take(s, Len(p)) = p

None == <<>>
Some(x) == <<x>>

\* ------------------------------------------------------------------------
\* UTF-8: String::as_bytes, String::len, String::from_utf8
\* ------------------------------------------------------------------------
EncodeChar(c) ==
  IF c < 128 THEN <<c>>
  ELSE IF c < 2048 THEN <<192 + (c \div 64), 128 + (c % 64)>>
  ELSE IF c < 65536 THEN <<224 + (c \div 4096), 128 + ((c \div 64) % 64), 128 + (c % 64)>>
  ELSE <<240 + (c \div 262144), 128 + ((c \div 4096) % 64),
         128 + ((c \div 64) % 64), 128 + (c % 64)>>

RECURSIVE as_bytes(_)
as_bytes(s) == IF s = <<>> THEN <<>> ELSE EncodeChar(Head(s)) \o as_bytes(Tail(s))

\* The number of chars of a string, which is not what str::len() returns.
str_len_chars(s) == Len(s)

\* str::len(): the length in bytes
str_len(s) == Len(as_bytes(s))

IsCont(b) == b >= 128 /\ b <= 191

\* Number of bytes of the well-formed UTF-8 sequence starting at b[i], 0 if none.
SeqWidth(b, i) ==
  LET n == Len(b)
      b0 == b[i]
      c1 == IF i + 1 <= n THEN b[i + 1] ELSE 0
      c2 == IF i + 2 <= n THEN b[i + 2] ELSE 0
      c3 == IF i + 3 <= n THEN b[i + 3] ELSE 0
  IN  IF b0 < 128 THEN 1
      ELSE IF b0 >= 194 /\ b0 <= 223 THEN (IF IsCont(c1) THEN 2 ELSE 0)
      ELSE IF b0 >= 224 /\ b0 <= 239 THEN
        (IF /\ IsCont(c1) /\ IsCont(c2)
            /\ (b0 = 224 => c1 >= 160)
            /\ (b0 = 237 => c1 <= 159)
         THEN 3 ELSE 0)
      ELSE IF b0 >= 240 /\ b0 <= 244 THEN
        (IF /\ IsCont(c1) /\ IsCont(c2) /\ IsCont(c3)
            /\ (b0 = 240 => c1 >= 144)
            /\ (b0 = 244 => c1 <= 143)
         THEN 4 ELSE 0)
      ELSE 0

DecodeAt(b, i, w) ==
  IF w = 1 THEN b[i]
  ELSE IF w = 2 THEN (b[i] - 192) * 64 + (b[i + 1] - 128)
  ELSE IF w = 3 THEN (b[i] - 224) * 4096 + (b[i + 1] - 128) * 64 + (b[i + 2] - 128)
  ELSE (b[i] - 240) * 262144 + (b[i + 1] - 128) * 4096
       + (b[i + 2] - 128) * 64 + (b[i + 3] - 128)

RECURSIVE DecodeFrom(_, _, _)
DecodeStep(b, i, acc, w) ==
  IF w = 0 THEN [ok |-> FALSE, out |-> <<>>]
  ELSE DecodeFrom(b, i + w, Append(acc, DecodeAt(b, i, w)))

DecodeFrom(b, i, acc) ==
  IF i > Len(b) THEN [ok |-> TRUE, out |-> acc]
  ELSE DecodeStep(b, i, acc, SeqWidth(b, i))

from_utf8(b) == DecodeFrom(b, 1, <<>>)

\* char::is_whitespace (the Unicode White_Space property)
is_whitespace(c) ==
  \/ (c >= 9 /\ c <= 13) \/ c = 32 \/ c = 133 \/ c = 160 \/ c = 5760
  \/ (c >= 8192 /\ c <= 8202) \/ c = 8232 \/ c = 8233 \/ c = 8239
  \/ c = 8287 \/ c = 12288

\* format!("{}", n) for an unsigned integer
RECURSIVE Decimal(_)
Decimal(n) == IF n < 10 THEN <<48 + n>> ELSE Append(Decimal(n \div 10), 48 + (n % 10))

\* str::parse::<usize>(): an optional '+', then one or more decimal digits.
RECURSIVE DigitsValue(_, _)
DigitsValue(s, acc) ==
  IF s = <<>> THEN acc ELSE DigitsValue(Tail(s), acc * 10 + (Head(s) - 48))

ParseDigits(d) ==
  IF d # <<>> /\ \A i \in DOMAIN d : d[i] >= 48 /\ d[i] <= 57
  THEN [ok |-> TRUE, out |-> DigitsValue(d, 0)]
  ELSE [ok |-> FALSE, out |-> 0]

parse_usize(s) == ParseDigits(IF s # <<>> /\ s[1] = 43 THEN Tail(s) ELSE s)

\* ------------------------------------------------------------------------
\* nom combinators used by parse_http_request (complete mode).
\* A parser result is [ok, out, rest].
\* ------------------------------------------------------------------------
ParseError == [ok |-> FALSE, out |-> <<>>, rest |-> <<>>]

\* Length of the longest prefix of the input whose chars all satisfy a
\* predicate; match[i] tells whether the i-th char satisfies it.
SpanLen(match) ==
  IF \E i \in DOMAIN match : ~match[i]
  THEN (CHOOSE i \in DOMAIN match : ~match[i] /\ \A j \in 1..(i - 1) : match[j]) - 1
  ELSE Len(match)

SplitAt(input, n) == [ok |-> TRUE, out |-> Take(input, n), rest |-> Drop(input, n)]

TakeSpan1(input, n) == IF n = 0 THEN ParseError ELSE SplitAt(input, n)

take_while1(match, input) == TakeSpan1(input, SpanLen(match))

\* space0: zero or more spaces and tabs
space0(input) ==
  SplitAt(input, SpanLen([i \in DOMAIN input |-> input[i] = 32 \/ input[i] = 9]))

tag(t, input) ==
  IF IsPrefix(t, input)
  THEN [ok |-> TRUE, out |-> t, rest |-> Drop(input, Len(t))]
  ELSE ParseError

crlf(input) == tag(S_crlf, input)

\* terminated(first, second): the output of first, once second matched too
terminated(a, b) ==
  IF ~a.ok \/ ~b.ok THEN ParseError
  ELSE [ok |-> TRUE, out |-> a.out, rest |-> b.rest]

\* pair(first, second): both outputs
pair(a, b) ==
  IF ~a.ok \/ ~b.ok THEN ParseError
  ELSE [ok |-> TRUE, out |-> <<a.out, b.out>>, rest |-> b.rest]

non_whitespace(input) ==
  take_while1([i \in DOMAIN input |-> ~is_whitespace(input[i])], input)

ThenSpace0(a) == terminated(a, space0(a.rest))
ThenCrlf(a) == terminated(a, crlf(a.rest))
ThenColonSpace(a) == terminated(a, tag(S_colon_space, a.rest))

\* terminated(non_whitespace, space0)
token_space0(input) == ThenSpace0(non_whitespace(input))

\* terminated(non_whitespace, crlf)
token_crlf(input) == ThenCrlf(non_whitespace(input))

\* terminated(take_while1(|c| c != ':'), tag(": "))
header_name(input) ==
  ThenColonSpace(take_while1([i \in DOMAIN input |-> input[i] # 58], input))

ThenValue(a) == pair(a, token_crlf(a.rest))

\* pair(header_name, terminated(non_whitespace, crlf))
header_line(input) == ThenValue(header_name(input))

\* many1's loop after the first element: stop at the first element that
\* fails and keep what was parsed; the unparsed rest is returned.
RECURSIVE many_more(_, _)
ManyStep(input, acc, r) ==
  IF ~r.ok THEN [ok |-> TRUE, out |-> acc, rest |-> input]
  ELSE many_more(r.rest, Append(acc, r.out))

many_more(input, acc) == ManyStep(input, acc, header_line(input))

ManyFirst(r) == IF ~r.ok THEN ParseError ELSE many_more(r.rest, <<r.out>>)

\* many1(pair(...)): at least one header line
many1(input) == ManyFirst(header_line(input))

\* headers.into_iter().collect::<HashMap>(): the last pair of a name wins.
LastOf(pairs, n) ==
  CHOOSE i \in DOMAIN pairs :
    pairs[i][1] = n /\ \A j \in DOMAIN pairs : pairs[j][1] = n => j <= i

collect(pairs) ==
  [n \in {pairs[i][1] : i \in DOMAIN pairs} |-> pairs[LastOf(pairs, n)][2]]

\* HashMap::get
get(headers, name) == IF name \in DOMAIN headers THEN Some(headers[name]) ELSE None

NoHeaders == [n \in {} |-> <<>>]
NoRequest == [method |-> "none", route |-> <<>>, version |-> <<>>,
              headers |-> NoHeaders, body |-> None]

ParseFailed == [result |-> "error", request |-> NoRequest]

\* The method match, and the HttpRequest that is returned.
BuildRequest(m, r, v, h) ==
  IF ~h.ok THEN ParseFailed
  ELSE IF m.out # S_GET /\ m.out # S_POST
  THEN [result |-> "panic", request |-> NoRequest]
  ELSE [result |-> "ok",
        request |-> [method |-> IF m.out = S_GET THEN "Get" ELSE "Post",
                     route |-> r.out,
                     version |-> v.out,
                     headers |-> collect(h.out),
                     body |-> None]]

ParseHeaders(m, r, v) == IF ~v.ok THEN ParseFailed ELSE BuildRequest(m, r, v, many1(v.rest))
ParseVersion(m, r) == IF ~r.ok THEN ParseFailed ELSE ParseHeaders(m, r, token_crlf(r.rest))
ParseRoute(m) == IF ~m.ok THEN ParseFailed ELSE ParseVersion(m, token_space0(m.rest))

\* parse_http_request: result "ok" with the request, "error" (an Err of
\* nom) or "panic" (the panic!() of the method match).
parse_http_request(content) == ParseRoute(token_space0(content))

\* ------------------------------------------------------------------------
\* reader_request
\* ------------------------------------------------------------------------
\* End of the line that starts at pos: the index of its '\n', or the end of
\* the stream when the peer closed before sending one.
LineEnd(stream, pos) ==
  IF \E i \in pos..Len(stream) : stream[i] = 10
  THEN CHOOSE i \in pos..Len(stream) :
         stream[i] = 10 /\ \A j \in pos..(i - 1) : stream[j] # 10
  ELSE Len(stream)

\* The loop "read until empty line": it ends at end of stream (n = 0), at a
\* line that trim() leaves empty, or at a read_line error (a line that is
\* not UTF-8).  pos is the first byte that was not consumed.
RECURSIVE read_lines(_, _, _)
LineRead(stream, e, request_content, temp_line) ==
  IF ~temp_line.ok
  THEN [content |-> request_content, pos |-> e + 1]
  ELSE IF \A i \in DOMAIN temp_line.out : is_whitespace(temp_line.out[i])
  THEN [content |-> request_content, pos |-> e + 1]
  ELSE read_lines(stream, e + 1, request_content \o temp_line.out)

read_line(stream, pos, request_content, e) ==
  LineRead(stream, e, request_content, from_utf8(SubSeq(stream, pos, e)))

read_lines(stream, pos, request_content) ==
  IF pos > Len(stream) THEN [content |-> request_content, pos |-> pos]
  ELSE read_line(stream, pos, request_content, LineEnd(stream, pos))

\* AsyncReadExt::read: whatever is available, up to n bytes.
read_available(stream, pos, n) ==
  IF Len(stream) - pos + 1 >= n
  THEN [ok |-> TRUE, out |-> SubSeq(stream, pos, pos + n - 1)]
  ELSE [ok |-> TRUE, out |-> SubSeq(stream, pos, Len(stream))]

\* AsyncReadExt::read_exact: n bytes, or an error at end of stream.
read_exact(stream, pos, n) ==
  IF Len(stream) - pos + 1 >= n
  THEN [ok |-> TRUE, out |-> SubSeq(stream, pos, pos + n - 1)]
  ELSE [ok |-> FALSE, out |-> <<>>]

\* String::from_utf8(buffer) and `request.body = body`
BodyText(req, x) ==
  IF ~x.ok THEN [result |-> "not_utf8", request |-> req]
  ELSE [result |-> "ok", request |-> [req EXCEPT !.body = Some(x.out)]]

BodyBuffer(req, buffer) ==
  IF ~buffer.ok THEN [result |-> "truncated", request |-> req]
  ELSE BodyText(req, from_utf8(buffer.out))

BodyLength(stream, pos, req, n) ==
  IF ~n.ok THEN [result |-> "content_length", request |-> req]
  ELSE BodyBuffer(req, read_exact(stream, pos, n.out))

\* "read body": the header Content-Length decides whether one is read
ReadBody(stream, pos, req, length) ==
  IF length = None THEN [result |-> "ok", request |-> req]
  ELSE BodyLength(stream, pos, req, parse_usize(length[1]))

Parsed(stream, pos, p) ==
  IF p.result = "panic" THEN [result |-> "panic", request |-> NoRequest]
  ELSE IF p.result = "error" THEN [result |-> "parse", request |-> NoRequest]
  ELSE ReadBody(stream, pos, p.request, get(p.request.headers, S_Content_Length))

LinesRead(stream, lines) == Parsed(stream, lines.pos, parse_http_request(lines.content))

\* result: "ok", "panic", or the error that `?` returns: "parse",
\* "content_length", "truncated", "not_utf8".  request is the local
\* `request` of line 99 (NoRequest when parsing did not return one).
reader_request(stream) == LinesRead(stream, read_lines(stream, 1, <<>>))

\* ------------------------------------------------------------------------
\* route_request
\* ------------------------------------------------------------------------
FirstSlash(s) == CHOOSE k \in DOMAIN s : s[k] = 47 /\ \A j \in 1..(k - 1) : s[j] # 47

\* str::split('/')
RECURSIVE split(_)
SplitOn(s, i) == <<Take(s, i - 1)>> \o split(Drop(s, i))

split(s) == IF \E i \in DOMAIN s : s[i] = 47 THEN SplitOn(s, FirstSlash(s)) ELSE <<s>>

\* request.route.split('/').skip(1).collect()
RouteSegments(route) == Tail(split(route))

\* [&str]::join("/")
RECURSIVE join(_)
join(val) ==
  IF val = <<>> THEN <<>>
  ELSE IF Len(val) = 1 THEN val[1]
  ELSE val[1] \o <<47>> \o join(Tail(val))

\* The match of line 167 with the method test of the echo arm left out.
route_match_any_method(method, route) ==
  IF method = "Get" /\ route = << <<>> >> THEN "root"
  ELSE IF route # <<>> /\ route[1] = S_echo THEN "echo"
  ELSE IF method = "Get" /\ route = <<S_user_agent>> THEN "user_agent"
  ELSE IF method = "Get" /\ Len(route) = 2 /\ route[1] = S_files THEN "get_file"
  ELSE IF method = "Post" /\ Len(route) = 2 /\ route[1] = S_files THEN "post_file"
  ELSE "not_found"

\* The arm that `match (&request.method, route.as_slice())` selects.
route_match(method, route) ==
  IF method = "Get" /\ route = << <<>> >> THEN "root"
  ELSE IF method = "Get" /\ route # <<>> /\ route[1] = S_echo THEN "echo"
  ELSE IF method = "Get" /\ route = <<S_user_agent>> THEN "user_agent"
  ELSE IF method = "Get" /\ Len(route) = 2 /\ route[1] = S_files THEN "get_file"
  ELSE IF method = "Post" /\ Len(route) = 2 /\ route[1] = S_files THEN "post_file"
  ELSE "not_found"

Empty == [kind |-> "Empty", data |-> <<>>]
Text(s) == [kind |-> "Text", data |-> s]
OctetStream(s) == [kind |-> "OctetStream", data |-> s]

HttpResponseBuilder(status, version, content) ==
  [status_code |-> status, version |-> version, content |-> content]

NoResponse == [status_code |-> "none", version |-> <<>>, content |-> Empty]

\* ------------------------------------------------------------------------
\* impl Into<String> for HttpResponseBuilder
\* ------------------------------------------------------------------------
StatusCode(status) ==
  IF status = "Ok200" THEN Decimal(200)
  ELSE IF status = "Created201" THEN Decimal(201)
  ELSE IF status = "NotFound404" THEN Decimal(404)
  ELSE Decimal(500)

StatusPhrase(status) ==
  IF status = "Ok200" THEN S_Ok
  ELSE IF status = "Created201" THEN S_Created
  ELSE IF status = "NotFound404" THEN S_NotFound
  ELSE S_InternalError

ContentPart(content) ==
  IF content.kind = "Empty" THEN S_crlf
  ELSE IF content.kind = "Text"
  THEN S_ct_text \o S_cl_prefix \o Decimal(str_len(content.data)) \o S_crlf
       \o S_crlf \o content.data
  ELSE S_ct_octet \o S_cl_prefix \o Decimal(str_len(content.data)) \o S_crlf
       \o S_crlf \o content.data

into(r) ==
  r.version \o <<32>> \o StatusCode(r.status_code) \o <<32>>
    \o StatusPhrase(r.status_code) \o S_crlf \o ContentPart(r.content)

\* ------------------------------------------------------------------------
\* Requests that clients send
\* ------------------------------------------------------------------------
S_PUT == <<80, 85, 84>>                                              \* "PUT"
S_HTTP11 == <<72, 84, 84, 80, 47, 49, 46, 49>>                       \* "HTTP/1.1"
S_HTTP10 == <<72, 84, 84, 80, 47, 49, 46, 48>>                       \* "HTTP/1.0"
T_root == <<47>>                                                     \* "/"
T_echo == <<47, 101, 99, 104, 111>>                                  \* "/echo"
T_echo_ea == <<47, 101, 99, 104, 111, 47, 233, 47, 97>>              \* "/echo/é/a"
T_user_agent == <<47, 117, 115, 101, 114, 45, 97, 103, 101, 110, 116>> \* "/user-agent"
T_files_f == <<47, 102, 105, 108, 101, 115, 47, 102>>                \* "/files/f"
T_files_g == <<47, 102, 105, 108, 101, 115, 47, 103>>                \* "/files/g"
T_files_h == <<47, 102, 105, 108, 101, 115, 47, 104>>                \* "/files/h"
T_x == <<47, 120>>                                                   \* "/x"
F_f == <<102>>                                                       \* "f"
F_g == <<103>>                                                       \* "g"
H_ua == <<85, 115, 101, 114, 45, 65, 103, 101, 110, 116, 58, 32, 102>> \* "User-Agent: f"
H_ua_sp ==                                                           \* "User-Agent: f g"
  <<85, 115, 101, 114, 45, 65, 103, 101, 110, 116, 58, 32, 102, 32, 103>>
H_bad == <<66, 97, 100>>                                             \* "Bad"
H_cl_x ==                                                            \* "Content-Length: x"
  <<67, 111, 110, 116, 101, 110, 116, 45, 76, 101, 110, 103, 116, 104, 58, 32, 120>>
H_cl(n) == S_cl_prefix \o Decimal(n)                                 \* "Content-Length: n"

RequestLine(m, t, v) == m \o <<32>> \o t \o <<32>> \o v

GetTargets ==
  {T_root, T_echo, T_echo_ea, T_user_agent, T_files_f, T_files_g, T_files_h, T_x}
PostTargets == {T_root, T_echo_ea, T_files_f, T_files_h}

\* "GET /" has no version token, "PUT" is no method of the server.
RequestLines ==
  {RequestLine(S_GET, t, S_HTTP11) : t \in GetTargets}
    \cup {RequestLine(S_POST, t, S_HTTP11) : t \in PostTargets}
    \cup {RequestLine(S_PUT, T_root, S_HTTP11),
          RequestLine(S_GET, T_root, S_HTTP10),
          S_GET \o <<32>> \o T_root}
\* The client that announces a body announces MaxBody bytes.
HeaderLines == {H_ua, H_ua_sp, H_bad, H_cl(MaxBody), H_cl_x}
BodyBytes == {97, 195}

SeqsUpTo(S, n) == UNION {[1..k -> S] : k \in 0..n}

NoWire == [line |-> <<>>, headers |-> <<>>, body |-> <<>>]

Announces(headers) == \E i \in DOMAIN headers : headers[i] = H_cl(MaxBody)

\* A client sends body bytes only after a header line that announces them.
WireInputs ==
  {w \in [line : RequestLines, headers : SeqsUpTo(HeaderLines, MaxHeaders),
          body : SeqsUpTo(BodyBytes, MaxBody)] :
     w.body # <<>> => Announces(w.headers)}

\* Requests of the runs with two connections.
ConcInputs ==
  { [line |-> RequestLine(S_POST, T_files_f, S_HTTP11),
     headers |-> <<H_cl(2)>>, body |-> <<97, 98>>],
    [line |-> RequestLine(S_POST, T_files_f, S_HTTP11),
     headers |-> <<H_cl(1)>>, body |-> <<99>>],
    [line |-> RequestLine(S_GET, T_files_f, S_HTTP11),
     headers |-> <<H_ua>>, body |-> <<>>],
    [line |-> RequestLine(S_GET, T_root, S_HTTP11),
     headers |-> <<>>, body |-> <<>>] }

RECURSIVE HeaderBlock(_)
HeaderBlock(headers) ==
  IF headers = <<>> THEN <<>>
  ELSE Head(headers) \o S_crlf \o HeaderBlock(Tail(headers))

\* The bytes on the socket: request line, header lines, empty line, body.
Stream(w) == as_bytes(w.line \o S_crlf \o HeaderBlock(w.headers) \o S_crlf) \o w.body

\* ------------------------------------------------------------------------
\* State
\* ------------------------------------------------------------------------
Conns == {1, 2}

VARIABLES
  pc,           \* position of each connection's task
  wire,         \* what the client of each connection sends
  read_result,  \* outcome of reader_request
  request,      \* the local `request`
  response,     \* the HttpResponseBuilder of stream_handler
  written,      \* Option: the bytes written to the socket
  fault,        \* the filesystem refused a create or a write of this task
  directory,    \* Option: the --directory argument
  fs            \* files under the directory: name -> bytes

vars == <<pc, wire, read_result, request, response, written, fault, directory, fs>>

\* The files of the served directory: f holds "é", g holds a byte that is
\* no UTF-8; no other file exists.
InitialFiles == [n \in {F_f, F_g} |-> IF n = F_f THEN <<195, 169>> ELSE <<195>>]

Exists(name) == name \in DOMAIN fs
PutFile(name, bytes) ==
  [n \in DOMAIN fs \cup {name} |-> IF n = name THEN bytes ELSE fs[n]]

\* write at offset 0 of a handle that File::create returned: the bytes
\* replace the start of the file, what lies beyond them stays.
WriteAt0(old, bytes) ==
  IF Len(old) > Len(bytes) THEN bytes \o Drop(old, Len(bytes)) ELSE bytes

Init ==
  /\ pc = [c \in Conns |-> "idle"]
  /\ wire = [c \in Conns |-> NoWire]
  /\ read_result = [c \in Conns |-> "none"]
  /\ request = [c \in Conns |-> NoRequest]
  /\ response = [c \in Conns |-> NoResponse]
  /\ written = [c \in Conns |-> None]
  /\ fault = [c \in Conns |-> FALSE]
  /\ directory \in {None, Some("dir")}
  /\ fs = InitialFiles

\* main: listener.accept() and tokio::spawn of stream_handler
Accept(c, inputs) ==
  /\ pc[c] = "idle"
  /\ \E w \in inputs : wire' = [wire EXCEPT ![c] = w]
  /\ pc' = [pc EXCEPT ![c] = "reading"]
  /\ UNCHANGED <<read_result, request, response, written, fault, directory, fs>>

ReadDone(c, r) ==
  /\ read_result' = [read_result EXCEPT ![c] = r.result]
  /\ request' = [request EXCEPT ![c] = r.request]
  /\ pc' = [pc EXCEPT ![c] =
              IF r.result = "ok" THEN "routing"
              ELSE IF r.result = "panic" THEN "panicked"
              ELSE "read_failed"]

\* stream_handler: `reader_request(&mut reader).await?`
ReaderRequest(c) ==
  /\ pc[c] = "reading"
  /\ ReadDone(c, reader_request(Stream(wire[c])))
  /\ UNCHANGED <<wire, response, written, fault, directory, fs>>

Respond(c, status, content) ==
  /\ response' = [response EXCEPT ![c] =
                    HttpResponseBuilder(status, request[c].version, content)]
  /\ pc' = [pc EXCEPT ![c] = "responding"]

Goto(c, label) ==
  /\ pc' = [pc EXCEPT ![c] = label]
  /\ UNCHANGED response

UserAgent(c, user_agent) ==
  IF user_agent # None THEN Respond(c, "Ok200", Text(user_agent[1]))
  ELSE Respond(c, "NotFound404", Empty)

RouteArm(c, route, arm) ==
  IF arm = "root" THEN Respond(c, "Ok200", Empty)
  ELSE IF arm = "echo" THEN Respond(c, "Ok200", Text(join(Tail(route))))
  ELSE IF arm = "user_agent" THEN UserAgent(c, get(request[c].headers, S_User_Agent))
  ELSE IF arm = "get_file" THEN
    IF directory = None THEN Respond(c, "NotFound404", Empty)
    ELSE Goto(c, "opening")
  ELSE IF arm = "post_file" THEN
    IF request[c].body = None THEN Respond(c, "InternalError500", Empty)
    ELSE IF directory = None THEN Respond(c, "NotFound404", Empty)
    ELSE Goto(c, "creating")
  ELSE Respond(c, "NotFound404", Empty)

Routed(c, route) == RouteArm(c, route, route_match(request[c].method, route))

\* route_request up to its first file operation; an Err it returns becomes
\* the 500 of stream_handler's unwrap_or_else
RouteRequest(c) ==
  /\ pc[c] = "routing"
  /\ Routed(c, RouteSegments(request[c].route))
  /\ UNCHANGED <<wire, read_result, request, written, fault, directory, fs>>

filename(c) == RouteSegments(request[c].route)[2]

\* File::open(&file_path)
FileOpen(c) ==
  /\ pc[c] = "opening"
  /\ IF Exists(filename(c)) THEN Goto(c, "file_reading")
     ELSE Respond(c, "NotFound404", Empty)
  /\ UNCHANGED <<wire, read_result, request, written, fault, directory, fs>>

FileContent(c, file_content) ==
  IF file_content.ok THEN Respond(c, "Ok200", OctetStream(file_content.out))
  ELSE Respond(c, "NotFound404", Empty)

\* file.read_to_string(&mut file_content)
FileRead(c) ==
  /\ pc[c] = "file_reading"
  /\ FileContent(c, from_utf8(fs[filename(c)]))
  /\ UNCHANGED <<wire, read_result, request, written, fault, directory, fs>>

\* File::create(&file_path): create or truncate, or an I/O error
FileCreate(c) ==
  /\ pc[c] = "creating"
  /\ \/ /\ fs' = PutFile(filename(c), <<>>)
        /\ Goto(c, "writing")
        /\ UNCHANGED fault
     \/ /\ fault' = [fault EXCEPT ![c] = TRUE]
        /\ Respond(c, "InternalError500", Empty)
        /\ UNCHANGED fs
  /\ UNCHANGED <<wire, read_result, request, written, directory>>

\* file.write_all(content.as_bytes()), or an I/O error
FileWrite(c) ==
  /\ pc[c] = "writing"
  /\ \/ /\ fs' = PutFile(filename(c),
                         WriteAt0(fs[filename(c)], as_bytes(request[c].body[1])))
        /\ Respond(c, "Created201", Empty)
        /\ UNCHANGED fault
     \/ /\ fault' = [fault EXCEPT ![c] = TRUE]
        /\ Respond(c, "InternalError500", Empty)
        /\ UNCHANGED fs
  /\ UNCHANGED <<wire, read_result, request, written, directory>>

\* writer.write_all(response_string.as_bytes()), or a socket error
WriteResponse(c) ==
  /\ pc[c] = "responding"
  /\ \/ /\ written' = [written EXCEPT ![c] = Some(as_bytes(into(response[c])))]
        /\ pc' = [pc EXCEPT ![c] = "done"]
     \/ /\ pc' = [pc EXCEPT ![c] = "write_failed"]
        /\ UNCHANGED written
  /\ UNCHANGED <<wire, read_result, request, response, fault, directory, fs>>

Handler(c) ==
  \/ ReaderRequest(c)
  \/ RouteRequest(c)
  \/ FileOpen(c)
  \/ FileRead(c)
  \/ FileCreate(c)
  \/ FileWrite(c)
  \/ WriteResponse(c)

\* One connection, any request.
Next == Accept(1, WireInputs) \/ Handler(1)

Spec == Init /\ [][Next]_vars

\* Two connections served concurrently.
NextConc == \E c \in Conns : Accept(c, ConcInputs) \/ Handler(c)

SpecConc == Init /\ [][NextConc]_vars

\* ------------------------------------------------------------------------
\* Vocabulary of the properties: the wire protocol as the specification
\* words it, and the exact bytes of the responses.
\* ------------------------------------------------------------------------
Versions == {S_HTTP11, S_HTTP10}
W_200 == <<32, 50, 48, 48, 32, 79, 107, 13, 10>>                     \* " 200 Ok\r\n"
W_201 == <<32, 50, 48, 49, 32, 67, 114, 101, 97, 116, 101, 100, 13, 10>> \* " 201 Created\r\n"
W_404 ==                                                      \* " 404 NotFound\r\n"
  <<32, 52, 48, 52, 32, 78, 111, 116, 70, 111, 117, 110, 100, 13, 10>>
W_500 ==                                                 \* " 500 InternalError\r\n"
  <<32, 53, 48, 48, 32, 73, 110, 116, 101, 114, 110, 97, 108, 69, 114, 114, 111, 114,
    13, 10>>
W_text ==                      \* "Content-Type: text/plain\r\nContent-Length: "
  <<67, 111, 110, 116, 101, 110, 116, 45, 84, 121, 112, 101, 58, 32,
    116, 101, 120, 116, 47, 112, 108, 97, 105, 110, 13, 10,
    67, 111, 110, 116, 101, 110, 116, 45, 76, 101, 110, 103, 116, 104, 58, 32>>
W_octet ==       \* "Content-Type: application/octet-stream\r\nContent-Length: "
  <<67, 111, 110, 116, 101, 110, 116, 45, 84, 121, 112, 101, 58, 32,
    97, 112, 112, 108, 105, 99, 97, 116, 105, 111, 110, 47,
    111, 99, 116, 101, 116, 45, 115, 116, 114, 101, 97, 109, 13, 10,
    67, 111, 110, 116, 101, 110, 116, 45, 76, 101, 110, 103, 116, 104, 58, 32>>
W_end == <<13, 10, 13, 10>>                                          \* "\r\n\r\n"
P_echo == <<47, 101, 99, 104, 111, 47>>                              \* "/echo/"
P_files == <<47, 102, 105, 108, 101, 115, 47>>                       \* "/files/"
F_h == <<104>>                                                       \* "h"

\* A response without content: status line and the empty line.
EmptyResponse(version, status) == as_bytes(version) \o status \o S_crlf

\* A response with content: the content headers, the empty line, the bytes.
ContentResponse(version, type, bytes) ==
  as_bytes(version) \o W_200 \o type \o Decimal(Len(bytes)) \o W_end \o bytes

IsSuffix(p, s) == Len(p) <= Len(s) /\ SubSeq(s, Len(s) - Len(p) + 1, Len(s)) = p

HasDelimiter(h) == \E i \in 1..(Len(h) - 1) : h[i] = 58 /\ h[i + 1] = 32
DelimiterAt(h) ==
  CHOOSE i \in 1..(Len(h) - 1) :
    /\ h[i] = 58 /\ h[i + 1] = 32
    /\ \A j \in 1..(i - 1) : ~(h[j] = 58 /\ h[j + 1] = 32)
NameOf(h) == Take(h, DelimiterAt(h) - 1)
ValueOf(h) == Drop(h, DelimiterAt(h) + 1)

\* Header lines `Name: Value` none of which announces a body.
PlainHeaders(headers) ==
  \A i \in DOMAIN headers :
    HasDelimiter(headers[i]) /\ NameOf(headers[i]) # S_Content_Length

\* The handler returned and its socket took what was written to it.
Closed(c) == pc[c] \in {"done", "read_failed", "panicked"}
Read(c) == pc[c] \notin {"idle", "reading"}
Answered(c) == pc[c] \in {"responding", "done", "write_failed"}

\* ------------------------------------------------------------------------
\* Properties
\* ------------------------------------------------------------------------

\* C1: when the Request Reader fails to produce a request and the socket is
\* writable, the handler writes a 500 InternalError response before the
\* connection is closed.
C1_ReaderFailureAnswered500 ==
  \A c \in Conns :
    (Closed(c) /\ read_result[c] \notin {"none", "ok"}) =>
      (written[c] # None /\ IsSuffix(W_500 \o S_crlf, written[c][1]))

\* C2: a GET request for "/" with any number of header lines, none included,
\* and version token V is answered with exactly "V 200 Ok\r\n\r\n".  Stated
\* for requests whose header lines are all "User-Agent: f".
C2_RootAnswered200 ==
  \A c \in Conns : \A v \in Versions :
    ( /\ wire[c].line = RequestLine(S_GET, T_root, v)
      /\ wire[c].body = <<>>
      /\ \A i \in DOMAIN wire[c].headers : wire[c].headers[i] = H_ua
      /\ Closed(c) )
    => written[c] = Some(EmptyResponse(v, W_200))

\* C3: a POST to /files/<name> with a configured directory, a body of N
\* bytes of any values and the header Content-Length: N, without a fault of
\* the filesystem, leaves a file holding exactly those bytes and is
\* answered 201 Created with empty content.  Stated for requests whose only
\* header line is that Content-Length.
C3_PostStoresBody ==
  \A c \in Conns : \A name \in {F_f, F_h} :
    ( /\ wire[c].line = RequestLine(S_POST, P_files \o name, S_HTTP11)
      /\ wire[c].headers = <<H_cl(Len(wire[c].body))>>
      /\ directory # None
      /\ ~fault[c]
      /\ Closed(c) )
    => /\ Exists(name) /\ fs[name] = wire[c].body
       /\ written[c] = Some(EmptyResponse(S_HTTP11, W_201))

\* C4: a GET of /files/<name> is answered, when a directory is configured
\* and the file exists, 200 with Content-Type application/octet-stream,
\* Content-Length the file's byte length and the file's raw bytes as body,
\* whatever the bytes; otherwise 404 with empty content.
C4_GetFileRawBytes ==
  \A c \in Conns :
    ( /\ read_result[c] = "ok"
      /\ request[c].method = "Get"
      /\ Len(RouteSegments(request[c].route)) = 2
      /\ RouteSegments(request[c].route)[1] = S_files
      /\ pc[c] = "done" )
    => IF directory # None /\ Exists(filename(c))
       THEN written[c] =
              Some(ContentResponse(request[c].version, W_octet, fs[filename(c)]))
       ELSE written[c] = Some(EmptyResponse(request[c].version, W_404))

\* C5: a GET of /user-agent that carries a header line "User-Agent: v", v
\* being all that follows the first ": " of the line, is answered 200 with
\* Content-Type text/plain and body v; without such a line it is answered
\* 404.  Stated for requests with at least one header line and one
\* User-Agent line at most.
C5_UserAgentEchoed ==
  \A c \in Conns :
    ( /\ wire[c].line = RequestLine(S_GET, T_user_agent, S_HTTP11)
      /\ wire[c].headers # <<>>
      /\ PlainHeaders(wire[c].headers)
      /\ Cardinality({i \in DOMAIN wire[c].headers :
                        NameOf(wire[c].headers[i]) = S_User_Agent}) <= 1
      /\ Closed(c) )
    => IF \E i \in DOMAIN wire[c].headers : NameOf(wire[c].headers[i]) = S_User_Agent
       THEN \A i \in DOMAIN wire[c].headers :
              NameOf(wire[c].headers[i]) = S_User_Agent =>
                written[c] = Some(ContentResponse(S_HTTP11, W_text,
                                     as_bytes(ValueOf(wire[c].headers[i]))))
       ELSE written[c] = Some(EmptyResponse(S_HTTP11, W_404))

\* The body that C6 expects: what follows "/echo/" in the target.
EchoBody(route) == IF route = T_echo THEN <<>> ELSE Drop(route, Len(P_echo))

\* C6: a GET request that the Reader returned, with target /echo or
\* /echo/<s1>/.../<sk>, gets the response 200 with Content-Type text/plain,
\* the segments rejoined with "/" as body, and a Content-Length that is the
\* number of bytes of the body's UTF-8 encoding.
C6_EchoBodyAndByteLength ==
  \A c \in Conns :
    ( /\ read_result[c] = "ok"
      /\ request[c].method = "Get"
      /\ (request[c].route = T_echo \/ IsPrefix(P_echo, request[c].route)) )
    => /\ Answered(c) =>
            response[c] = HttpResponseBuilder("Ok200", request[c].version,
                                              Text(EchoBody(request[c].route)))
       /\ pc[c] = "done" =>
            written[c] = Some(ContentResponse(request[c].version, W_text,
                                              as_bytes(EchoBody(request[c].route))))

\* A GET of an echo target with a two-byte char was answered.
C6_Witness ==
  \E c \in Conns :
    /\ pc[c] = "done"
    /\ request[c].method = "Get"
    /\ request[c].route = T_echo_ea
    /\ Len(as_bytes(EchoBody(request[c].route))) > Len(EchoBody(request[c].route))

\* The five route rules, over the method and the path segments.
MatchesRule(method, route) ==
  \/ method = "Get" /\ route = << <<>> >>
  \/ method = "Get" /\ Len(route) >= 1 /\ route[1] = S_echo
  \/ method = "Get" /\ route = <<S_user_agent>>
  \/ method \in {"Get", "Post"} /\ Len(route) = 2 /\ route[1] = S_files

\* C7: a request whose method and path segments match none of the five
\* route rules gets a 404 response with empty content, whatever its method.
C7_UnmatchedIs404 ==
  \A c \in Conns :
    ( /\ read_result[c] = "ok"
      /\ ~MatchesRule(request[c].method, RouteSegments(request[c].route)) )
    => /\ Answered(c) =>
            response[c] = HttpResponseBuilder("NotFound404", request[c].version, Empty)
       /\ pc[c] = "done" =>
            written[c] = Some(EmptyResponse(request[c].version, W_404))

\* A POST of an echo target, which no rule matches, was answered.
C7_Witness ==
  \E c \in Conns :
    /\ pc[c] = "done"
    /\ request[c].method = "Post"
    /\ request[c].route = T_echo_ea

\* The length that the parsed header Content-Length declares, if it is one.
Declares(c, n) ==
  /\ request[c].method # "none"
  /\ S_Content_Length \in DOMAIN request[c].headers
  /\ request[c].headers[S_Content_Length] = Decimal(n)

\* C8: when the request declares Content-Length: N and the stream closes
\* after fewer than N body bytes, the Reader fails with the truncation
\* error; a Request it returns never has a body of another length than N.
C8_TruncatedBodyFails ==
  \A c \in Conns : \A n \in 0..(MaxBody + 1) :
    (Read(c) /\ Declares(c, n)) =>
      /\ Len(wire[c].body) < n =>
           read_result[c] = "truncated" /\ pc[c] = "read_failed"
      /\ read_result[c] = "ok" =>
           request[c].body # None /\ Len(as_bytes(request[c].body[1])) = n

\* The last declared body byte was never sent, and the Reader reported it.
C8_Witness ==
  \E c \in Conns : \E n \in 1..MaxBody :
    /\ Declares(c, n)
    /\ Len(wire[c].body) = n - 1
    /\ read_result[c] = "truncated"

\* C9: when two handlers concurrently process POST /files/<name> for the
\* same name with bodies A and B, then once both have finished the file
\* holds exactly A or exactly B.
C9_LastWriterWins ==
  ( /\ \A c \in Conns : wire[c].line = RequestLine(S_POST, T_files_f, S_HTTP11)
    /\ \A c \in Conns : pc[c] = "done" /\ ~fault[c]
    /\ directory # None )
  => \E c \in Conns : fs[F_f] = wire[c].body

\* C10: when a header line after the request line lacks the ": "
\* delimiter, the Reader fails for the whole request, whatever the position
\* of the line.
C10_MalformedHeaderFails ==
  \A c \in Conns :
    (Read(c) /\ \E i \in DOMAIN wire[c].headers : ~HasDelimiter(wire[c].headers[i]))
      => read_result[c] # "ok"

====
